---- MODULE Spec2Model ----
(***************************************************************************)
(* Verification model of the Java/Spring voice-intent backend:             *)
(*   IntentWebSocketHandler (session gateway), IntentService (interpreter),*)
(*   ValidationService, OllamaClient, ToolExecutor (dispatcher),           *)
(*   ContextService / ConversationContext (context store).                 *)
(*                                                                         *)
(* Three specifications share the variables:                               *)
(*   Spec     the gateway pipeline over two connections;                   *)
(*   SpecCtx  the ContextService API driven directly, long enough for the  *)
(*            five-turn bound and the 30 minute expiry to be exercised;    *)
(*   SpecFn   sanitizeText, isValidToolCall, interpret and execute called  *)
(*            directly on inputs drawn from bounded sets.                  *)
(***************************************************************************)
EXTENDS Integers, Sequences, FiniteSets, TLC

(***************************************************************************)
(* Bounds of the model                                                     *)
(***************************************************************************)
MaxMsgs == 2          \* inbound messages accepted over all connections (Spec)
MaxClock == 60        \* the simulated clock stops advancing here (minutes)
TickStep == 30        \* minutes the simulated clock advances per Tick
MaxCalls == 7         \* ContextService calls made in SpecCtx
MaxShortLen == 2      \* longest text enumerated character by character (SpecFn)
MaxOpens == 5         \* successful opens of the client's socket (SpecWs)
MaxNodeMsgs == 2      \* inbound messages accepted by the Node.js server (SpecNode)
MaxChunks == 4        \* audio chunks recorded by the WhisperEngine (SpecWhisper)

(***************************************************************************)
(* Program constants                                                       *)
(***************************************************************************)
CONTEXT_TIMEOUT == 30        \* ContextService.CONTEXT_TIMEOUT, minutes
MAX_TURNS == 5               \* ConversationContext.addTurn keeps 5 turns
MAX_TEXT_LENGTH == 1000      \* ValidationService.MAX_TEXT_LENGTH
MAX_PARAM_LENGTH == 500      \* ValidationService.MAX_PARAM_LENGTH
maxReconnectAttempts == 5    \* WebSocketClient.maxReconnectAttempts
maxChunkDuration == 2        \* WhisperEngine.maxChunkDuration, in chunks of audio

Sessions == {"s1", "s2"}

\* A Java null reference held where a String is expected.
Null == "<null>"

(***************************************************************************)
(* Strings that the code inspects character by character are sequences of  *)
(* character classes:                                                      *)
(*   "a"   a printable character above U+0020                              *)
(*   "sp"  the space U+0020                                                *)
(*   "nl"  newline, carriage return or tab (kept by the sanitizer regex)   *)
(*   "ctl" another control character below U+0020                         *)
(*   "del" U+007F, a control character above U+0020                        *)
(*   "c1"  a control character of U+0080..U+009F (for instance U+0085)     *)
(* A String reference that may be null is [isNull, chars].                 *)
(***************************************************************************)
Chars == {"a", "sp", "nl", "ctl", "del", "c1"}
JavaString(chars) == [isNull |-> FALSE, chars |-> chars]
NullString == [isNull |-> TRUE, chars |-> <<>>]

\* String.trim removes the characters <= U+0020 at both ends
IsTrimmed(ch) == ch \in {"sp", "nl", "ctl"}

\* [\p{Cntrl}&&[^\n\r\t]]: java.util.regex's \p{Cntrl} is the POSIX class
\* [\x00-\x1F\x7F] (US-ASCII only; String.replaceAll compiles the pattern
\* without UNICODE_CHARACTER_CLASS)
IsStripped(ch) == ch \in {"ctl", "del"}

RECURSIVE TrimLeft(_)
TrimLeft(s) ==
    IF s = <<>> THEN <<>>
    ELSE IF IsTrimmed(Head(s)) THEN TrimLeft(Tail(s)) ELSE s

RECURSIVE TrimRight(_)
TrimRight(s) ==
    IF s = <<>> THEN <<>>
    ELSE IF IsTrimmed(s[Len(s)]) THEN TrimRight(SubSeq(s, 1, Len(s) - 1)) ELSE s

\* the text as it is: isEmpty() without the trim()
trim_Nothing(s) == s

\* java.lang.String.trim
trim(s) == TrimRight(TrimLeft(s))

\* String.replaceAll("[\\p{Cntrl}&&[^\n\r\t]]", "")
replaceAllCntrl(s) == SelectSeq(s, LAMBDA ch : ~IsStripped(ch))

\* ValidationService.sanitizeText: "" for a null text; otherwise strip, trim
\* and only then cut at MAX_TEXT_LENGTH
sanitizeText(text) ==
    IF text.isNull THEN <<>>
    ELSE LET sanitized == trim(replaceAllCntrl(text.chars))
         IN IF Len(sanitized) > MAX_TEXT_LENGTH
            THEN SubSeq(sanitized, 1, MAX_TEXT_LENGTH)
            ELSE sanitized

(***************************************************************************)
(* Tool calls.  params is a Map<String,Object> that may itself be null;    *)
(* a value is a JSON scalar: null, or a string of which the code uses the  *)
(* length only.                                                            *)
(***************************************************************************)
NullVal == [isNull |-> TRUE, s |-> "", len |-> 0]
Str(s, n) == [isNull |-> FALSE, s |-> s, len |-> n]

NullParams == [isNull |-> TRUE, kv |-> <<>>]
Params(f) == [isNull |-> FALSE, kv |-> f]
EmptyParams == Params(<<>>)
containsKey(p, k) == k \in DOMAIN p.kv

\* a ToolCall reference: the object, or null
ToolCall(tool, params) == [isNull |-> FALSE, tool |-> tool, params |-> params]
NullToolCall == [isNull |-> TRUE, tool |-> Null, params |-> NullParams]

\* String.toLowerCase over the tool names of the model
toLowerCase(t) ==
    CASE t = "NAVIGATE" -> "navigate"
      [] t = "Unknown" -> "unknown"
      [] OTHER -> t

\* ValidationService.VALID_TOOLS
VALID_TOOLS == {"navigate", "save_form", "trigger_email", "submit_form", "unknown"}

\* Results of code that can throw: threw = TRUE stands for the exception
\* (a NullPointerException in every case below).
Threw == [threw |-> TRUE, ok |-> FALSE]
Returned(b) == [threw |-> FALSE, ok |-> b]

\* validateNavigateParams that does not ask for the page
validateNavigateParams_PageOptional(params) ==
    IF params.isNull \/ ~containsKey(params, "page") THEN Returned(TRUE)
    ELSE LET page == params.kv["page"]
         IN IF page.isNull THEN Threw
            ELSE Returned(~(page.len = 0 \/ page.len > MAX_PARAM_LENGTH))

\* ValidationService.validateNavigateParams
validateNavigateParams(params) ==
    IF params.isNull \/ ~containsKey(params, "page") THEN Returned(FALSE)
    ELSE LET page == params.kv["page"]
         IN IF page.isNull THEN Threw                 \* null.toString()
            ELSE Returned(~(page.len = 0 \/ page.len > MAX_PARAM_LENGTH))

\* ValidationService.validateSaveFormParams
validateSaveFormParams(params) ==
    IF params.isNull \/ ~containsKey(params, "field") \/ ~containsKey(params, "value")
    THEN Returned(FALSE)
    ELSE LET field == params.kv["field"]
             value == params.kv["value"]
         IN IF field.isNull \/ value.isNull THEN Threw
            ELSE Returned(~(field.len = 0 \/ field.len > MAX_PARAM_LENGTH
                            \/ value.len = 0 \/ value.len > MAX_PARAM_LENGTH))

\* ValidationService.validateTriggerEmailParams
validateTriggerEmailParams(params) ==
    IF params.isNull THEN Returned(TRUE)
    ELSE IF containsKey(params, "subject") /\ params.kv["subject"].isNull THEN Threw
    ELSE IF containsKey(params, "subject") /\ params.kv["subject"].len > MAX_PARAM_LENGTH
         THEN Returned(FALSE)
    ELSE IF containsKey(params, "body") /\ params.kv["body"].isNull THEN Threw
    ELSE IF containsKey(params, "body") /\ params.kv["body"].len > MAX_TEXT_LENGTH
         THEN Returned(FALSE)
    ELSE Returned(TRUE)

\* ValidationService.validateToolParameters
validateToolParameters(toolCall) ==
    LET tool == toLowerCase(toolCall.tool)
    IN CASE tool = "navigate" -> validateNavigateParams(toolCall.params)
         [] tool = "save_form" -> validateSaveFormParams(toolCall.params)
         [] tool = "trigger_email" -> validateTriggerEmailParams(toolCall.params)
         [] OTHER -> Returned(TRUE)

\* isValidToolCall that rejects a tool outside VALID_TOOLS
isValidToolCall_RejectUnregistered(toolCall) ==
    IF toolCall.isNull \/ toolCall.tool = Null \/ toolCall.tool = ""
    THEN Returned(FALSE)
    ELSE IF toLowerCase(toolCall.tool) \notin VALID_TOOLS THEN Returned(FALSE)
    ELSE validateToolParameters(toolCall)

\* ValidationService.isValidToolCall
isValidToolCall(toolCall) ==
    IF toolCall.isNull \/ toolCall.tool = Null \/ toolCall.tool = ""
    THEN Returned(FALSE)
    ELSE IF toLowerCase(toolCall.tool) \notin VALID_TOOLS THEN Returned(TRUE)
    ELSE validateToolParameters(toolCall)

(***************************************************************************)
(* The completion service's reply text.  open/close are the markdown code  *)
(* fence around the document; doc is what the text between them is:        *)
(*   kind "garbage"  not JSON                                              *)
(*   kind "null"     the JSON literal null                                 *)
(*   kind "object"   a JSON object; tool = Null when the key is missing or *)
(*                   null, params = NullParams likewise                    *)
(***************************************************************************)
FENCE_JSON == "fence-json"     \* the text starts with three backticks and json
FENCE == "fence"               \* the text starts with three backticks
Doc(kind, tool, params) == [kind |-> kind, tool |-> tool, params |-> params]
Response(open, doc, close) == [open |-> open, doc |-> doc, close |-> close]
Plain(doc) == Response("", doc, FALSE)

\* The fallback body OllamaClient.generate substitutes in onErrorResume:
\* {"tool":"error","params":{"message":"LLM unavailable"}}
LLM_UNAVAILABLE ==
    Plain(Doc("object", "error", Params("message" :> Str("LLM unavailable", 15))))

\* generate with a fallback body that is not a tool call
generate_GarbageFallback(outcome) ==
    IF outcome.kind = "reply" THEN outcome.response
    ELSE Plain(Doc("garbage", Null, NullParams))

\* OllamaClient.generate: outcome.kind = "reply" when the HTTP call returns a
\* body with a response text in time; "failure" on timeout, connection
\* refused, non-2xx status or a body without response text; "empty" when
\* the call returns 2xx with no body to decode (or the JSON literal null):
\* bodyToMono then completes without a value, and so does generate, since
\* timeout, map and onErrorResume act on a value or an error only.
generate(outcome) ==
    IF outcome.kind = "reply" THEN outcome.response ELSE LLM_UNAVAILABLE

\* generate completes without emitting a response
generateEmpty(outcome) == outcome.kind = "empty"

\* parseToolCall whose fallback command carries an empty map, and that
\* passes a command without a tool on
parseToolCall_EmptyParams(response) ==
    IF response.open # "" \/ response.close \/ response.doc.kind # "object"
    THEN [threw |-> FALSE, toolCall |-> ToolCall("unknown", EmptyParams)]
    ELSE [threw |-> FALSE,
          toolCall |-> ToolCall(response.doc.tool, response.doc.params)]

\* IntentService.parseToolCall
parseToolCall(response) ==
    LET c1 == IF response.open = FENCE_JSON THEN [response EXCEPT !.open = ""]
              ELSE response
        c2 == IF c1.open = FENCE THEN [c1 EXCEPT !.open = ""] ELSE c1
        cleaned == IF c2.close THEN [c2 EXCEPT !.close = FALSE] ELSE c2
        doc == cleaned.doc
        unknown == [threw |-> FALSE, toolCall |-> ToolCall("unknown", NullParams)]
    IN IF cleaned.open # "" \/ cleaned.close \/ doc.kind = "garbage"
       THEN unknown                                   \* JsonProcessingException
       ELSE IF doc.kind = "null"
       THEN [threw |-> TRUE, toolCall |-> NullToolCall]
                                                      \* readValue gave null:
                                                      \* toolCall.getTool()
       ELSE IF doc.tool = Null \/ doc.tool = "" THEN unknown
       ELSE [threw |-> FALSE, toolCall |-> ToolCall(doc.tool, doc.params)]

\* IntentService.interpret from the completion service's answer on:
\* .map(this::parseToolCall).map(validate)
interpretResponse(response) ==
    LET parsed == parseToolCall(response)
    IN IF parsed.threw THEN parsed
       ELSE LET valid == isValidToolCall(parsed.toolCall)
            IN IF valid.threw
               THEN [threw |-> TRUE, toolCall |-> parsed.toolCall]
               ELSE IF ~valid.ok
               THEN [threw |-> FALSE, toolCall |-> ToolCall("unknown", NullParams)]
               ELSE parsed

(***************************************************************************)
(* ToolExecutor                                                            *)
(***************************************************************************)
ActionResult(action, success, error) ==
    [action |-> action, target |-> Null, field |-> Null, value |-> Null,
     taskId |-> Null, metadata |-> NullParams, success |-> success,
     error |-> error]

\* createErrorAction that leaves the error unset
createErrorAction_NoError(errorMessage) == ActionResult("ERROR", FALSE, Null)

\* ToolExecutor.createErrorAction
createErrorAction(errorMessage) == ActionResult("ERROR", FALSE, errorMessage)

ExecThrew == [threw |-> TRUE, result |-> createErrorAction(Null)]
ExecReturned(r) == [threw |-> FALSE, result |-> r]

\* ToolExecutor.executeNavigate
executeNavigate(toolCall) ==
    LET params == toolCall.params
    IN IF params.isNull \/ ~containsKey(params, "page")
       THEN ExecReturned(createErrorAction("Missing 'page' parameter for navigate"))
       ELSE IF params.kv["page"].isNull THEN ExecThrew
       ELSE ExecReturned([ActionResult("NAVIGATE", TRUE, Null)
                            EXCEPT !.target = params.kv["page"].s])

\* ToolExecutor.executeSaveForm
executeSaveForm(toolCall) ==
    LET params == toolCall.params
    IN IF params.isNull \/ ~containsKey(params, "field") \/ ~containsKey(params, "value")
       THEN ExecReturned(createErrorAction(
                "Missing 'field' or 'value' parameter for save_form"))
       ELSE IF params.kv["field"].isNull \/ params.kv["value"].isNull THEN ExecThrew
       ELSE ExecReturned([ActionResult("SAVE_FORM_FIELD", TRUE, Null)
                            EXCEPT !.field = params.kv["field"].s,
                                   !.value = params.kv["value"].s])

\* Map.getOrDefault(key, default): the default only when the key is absent
getOrDefault(params, k, default) ==
    IF ~params.isNull /\ containsKey(params, k) THEN params.kv[k] ELSE default

\* ToolExecutor.executeTriggerEmail
executeTriggerEmail(toolCall) ==
    LET subject == getOrDefault(toolCall.params, "subject", Str("Email notification", 18))
        body == getOrDefault(toolCall.params, "body", Str("", 0))
    IN IF subject.isNull \/ body.isNull THEN ExecThrew
       ELSE ExecReturned([ActionResult("BACKEND_TASK", TRUE, Null)
                EXCEPT !.taskId = "email_<millis>",
                       !.metadata = Params("subject" :> subject @@ "body" :> body
                                           @@ "status" :> Str("queued", 6))])

\* ToolExecutor.executeSubmitForm
executeSubmitForm(toolCall) == ExecReturned(ActionResult("SUBMIT_FORM", TRUE, Null))

\* executeUnknown that reports the command as carried out
executeUnknown_Succeeds(toolCall) ==
    ExecReturned(ActionResult("UNKNOWN", TRUE, Null))

\* ToolExecutor.executeUnknown
executeUnknown(toolCall) ==
    LET metadata == IF ~toolCall.params.isNull /\ containsKey(toolCall.params, "text")
                    THEN Params("original_text" :> toolCall.params.kv["text"])
                    ELSE EmptyParams
    IN ExecReturned([ActionResult("UNKNOWN", FALSE, "Could not interpret the command")
                       EXCEPT !.metadata = metadata])

\* execute with the default branch routed to executeUnknown
execute_DefaultUnknown(toolCall) ==
    IF toolCall.isNull \/ toolCall.tool = Null
    THEN ExecReturned(createErrorAction("Invalid tool call"))
    ELSE LET tool == toLowerCase(toolCall.tool)
         IN CASE tool = "navigate" -> executeNavigate(toolCall)
              [] tool = "save_form" -> executeSaveForm(toolCall)
              [] tool = "trigger_email" -> executeTriggerEmail(toolCall)
              [] tool = "submit_form" -> executeSubmitForm(toolCall)
              [] OTHER -> executeUnknown(toolCall)

\* ToolExecutor.execute
execute(toolCall) ==
    IF toolCall.isNull \/ toolCall.tool = Null
    THEN ExecReturned(createErrorAction("Invalid tool call"))
    ELSE LET tool == toLowerCase(toolCall.tool)
         IN CASE tool = "navigate" -> executeNavigate(toolCall)
              [] tool = "save_form" -> executeSaveForm(toolCall)
              [] tool = "trigger_email" -> executeTriggerEmail(toolCall)
              [] tool = "submit_form" -> executeSubmitForm(toolCall)
              [] tool = "unknown" -> executeUnknown(toolCall)
              [] OTHER -> ExecReturned(createErrorAction("Unknown tool: " \o toolCall.tool))

(***************************************************************************)
(* ConversationContext and ContextService.  Instants are minutes of the    *)
(* simulated clock.  A turn's cmd is a history field: the number of the    *)
(* final command (or of the direct call) the turn was recorded for.  The   *)
(* builder leaves turns null until the first addTurn; the null list and    *)
(* the empty list are both <<>>.                                           *)
(***************************************************************************)
NewContext(sid, now) ==
    [sessionId |-> sid, turns |-> <<>>, createdAt |-> now, lastAccessedAt |-> now]

Turn(userText, intent, action, now, cmd) ==
    [userText |-> userText, intent |-> intent, action |-> action,
     timestamp |-> now, cmd |-> cmd]

\* addTurn that drops the newest turn instead of the oldest
addTurn_DropNewest(context, turn, now) ==
    LET added == Append(context.turns, turn)
        kept == IF Len(added) > MAX_TURNS THEN SubSeq(added, 1, MAX_TURNS) ELSE added
    IN [context EXCEPT !.turns = kept, !.lastAccessedAt = now]

\* ConversationContext.addTurn
addTurn(context, turn, now) ==
    LET added == Append(context.turns, turn)
        kept == IF Len(added) > MAX_TURNS THEN Tail(added) ELSE added
    IN [context EXCEPT !.turns = kept, !.lastAccessedAt = now]

Restrict(f, S) == [x \in S |-> f[x]]

\* the predicate with >= 0 in place of > 0
expired_AtTimeout(context, now) == now - context.lastAccessedAt >= CONTEXT_TIMEOUT

\* the removeIf predicate of ContextService.cleanupExpiredContexts
expired(context, now) == now - context.lastAccessedAt > CONTEXT_TIMEOUT

\* ContextService.cleanupExpiredContexts
cleanupExpiredContexts(ctxs, now) ==
    Restrict(ctxs, {t \in DOMAIN ctxs : ~expired(ctxs[t], now)})

\* getContext without the sweep
getContext_NoSweep(ctxs, sid, now) ==
    IF sid \in DOMAIN ctxs THEN ctxs
    ELSE [t \in DOMAIN ctxs \cup {sid} |->
             IF t = sid THEN NewContext(sid, now) ELSE ctxs[t]]

\* ContextService.getContext: the map after the call; the context returned
\* is the entry of sid in it
getContext(ctxs, sid, now) ==
    LET swept == cleanupExpiredContexts(ctxs, now)
    IN IF sid \in DOMAIN swept THEN swept
       ELSE [t \in DOMAIN swept \cup {sid} |->
                IF t = sid THEN NewContext(sid, now) ELSE swept[t]]

\* updateContext that adds the turn twice
updateContext_TurnTwice(ctxs, sid, turn, now) ==
    LET got == getContext(ctxs, sid, now)
    IN [got EXCEPT ![sid] = addTurn(addTurn(@, turn, now), turn, now)]

\* ContextService.updateContext
updateContext(ctxs, sid, turn, now) ==
    LET got == getContext(ctxs, sid, now)
    IN [got EXCEPT ![sid] = addTurn(@, turn, now)]

\* clearContext that removes nothing
clearContext_NoRemove(ctxs, sid) == ctxs

\* ContextService.clearContext
clearContext(ctxs, sid) == Restrict(ctxs, DOMAIN ctxs \ {sid})

(***************************************************************************)
(* IntentService.interpret.  sessionId is "" for a null or empty session   *)
(* id.                                                                     *)
(***************************************************************************)
\* interpretPrompt that reads the context of the session before it looks at
\* the sanitized text
interpretPrompt_ContextFirst(text, sessionId, ctxs, now) ==
    LET read == sessionId # ""
        after == IF read THEN getContext(ctxs, sessionId, now) ELSE ctxs
        sanitized == sanitizeText(text)
    IN IF text.isNull \/ trim(text.chars) = <<>>
       THEN [done |-> TRUE, toolCall |-> ToolCall("unknown", NullParams),
             sanitized |-> <<>>, read |-> FALSE, contexts |-> ctxs,
             context |-> <<>>]
       ELSE [done |-> sanitized = <<>>,
             toolCall |-> IF sanitized = <<>> THEN ToolCall("unknown", NullParams)
                          ELSE NullToolCall,
             sanitized |-> sanitized, read |-> read, contexts |-> after,
             context |-> IF read THEN after[sessionId].turns ELSE <<>>]

\* interpret up to the prompt: the two early returns, then the context of
\* the session is read for the prompt.  done = TRUE when interpret has
\* returned toolCall; read = TRUE when contextService.getContext was called.
interpretPrompt(text, sessionId, ctxs, now) ==
    LET early == [done |-> TRUE, toolCall |-> ToolCall("unknown", NullParams),
                  sanitized |-> <<>>, read |-> FALSE, contexts |-> ctxs,
                  context |-> <<>>]
    IN IF text.isNull \/ trim(text.chars) = <<>> THEN early
       ELSE LET sanitized == sanitizeText(text)
                read == sessionId # ""
                after == IF read THEN getContext(ctxs, sessionId, now) ELSE ctxs
            IN IF sanitized = <<>> THEN early
               ELSE [done |-> FALSE, toolCall |-> NullToolCall,
                     sanitized |-> sanitized, read |-> read, contexts |-> after,
                     context |-> IF read THEN after[sessionId].turns ELSE <<>>]

\* interpret as a whole; outcome is how the completion-service call ends if
\* it is made (generated = TRUE); empty = TRUE when the Mono interpret
\* returns completes without a command
interpret(text, sessionId, ctxs, now, outcome) ==
    LET begun == interpretPrompt(text, sessionId, ctxs, now)
        response == generate(outcome)
        parsed == parseToolCall(response)
        interpreted == interpretResponse(response)
    IN IF begun.done
       THEN [threw |-> FALSE, toolCall |-> begun.toolCall, generated |-> FALSE,
             empty |-> FALSE, read |-> begun.read, contexts |-> begun.contexts,
             parsed |-> [threw |-> FALSE, toolCall |-> NullToolCall]]
       ELSE IF generateEmpty(outcome)
       THEN [threw |-> FALSE, toolCall |-> NullToolCall, generated |-> TRUE,
             empty |-> TRUE, read |-> begun.read, contexts |-> begun.contexts,
             parsed |-> [threw |-> FALSE, toolCall |-> NullToolCall]]
       ELSE [threw |-> interpreted.threw, toolCall |-> interpreted.toolCall,
             generated |-> TRUE, empty |-> FALSE, read |-> begun.read,
             contexts |-> begun.contexts, parsed |-> parsed]

(***************************************************************************)
(* Inputs of the model                                                     *)
(***************************************************************************)
\* IntentRequest as Jackson deserializes it; hasText = FALSE is text = null,
\* partial is the Boolean object ("null" when the key is missing)
Request(type, hasText, text, partial) ==
    [type |-> type, hasText |-> hasText, text |-> text, partial |-> partial]

Texts == {<<"a">>, <<"del">>, <<"sp">>}

Requests ==
    {Request("ping", FALSE, <<>>, "null"), Request("get_state", FALSE, <<>>, "null"),
     Request(Null, TRUE, <<"a">>, "null"), Request("stt", TRUE, <<"a">>, "null"),
     Request("stt", FALSE, <<>>, "false"),
     Request("stt", TRUE, <<>>, "false")}
    \cup {Request("stt", TRUE, t, p) : t \in Texts, p \in {"true", "false"}}

\* an inbound text frame: json = FALSE when objectMapper.readValue throws
Payloads ==
    {[json |-> FALSE, request |-> Request(Null, FALSE, <<>>, "null")]}
    \cup {[json |-> TRUE, request |-> r] : r \in Requests}

Responses ==
    {Plain(Doc("object", "navigate", Params("page" :> Str("settings", 8)))),
     Plain(Doc("object", "navigate", Params("page" :> NullVal))),
     Plain(Doc("object", "unknown", Params("text" :> Str("a", 1)))),
     Plain(Doc("garbage", Null, NullParams))}

Failure == [kind |-> "failure", response |-> LLM_UNAVAILABLE]
EmptyBody == [kind |-> "empty", response |-> Plain(Doc("null", Null, NullParams))]
Outcomes ==
    {Failure, EmptyBody} \cup {[kind |-> "reply", response |-> r] : r \in Responses}

(***************************************************************************)
(* State                                                                   *)
(***************************************************************************)
VARIABLES
    conn,       \* per connection: "idle" (not yet accepted), "open", "closed"
    contexts,   \* ContextService.contexts: session id -> ConversationContext
    clock,      \* Instant.now(), minutes
    inflight,   \* final commands whose completion-service call is pending
    outbox,     \* per connection: the envelopes sent, in order
    nmsgs,      \* inbound messages handled so far
    nextSeq,    \* per connection: final commands received so far
    lastCall,   \* history: the interpretation that finished last
    appended,   \* history: per session, every turn added to the current entry
    calls,      \* SpecCtx: ContextService calls made so far
    returned,   \* SpecCtx: history of the last getContext call
    fn,         \* SpecFn: the direct call being made: its arguments, its result
    client,     \* SpecWs: the browser's WebSocketClient and its socket
    node,       \* SpecNode: the Node.js server, its connections and its ActionExecutor
    whisper     \* SpecWhisper: the browser's WhisperEngine

vars == <<conn, contexts, clock, inflight, outbox, nmsgs, nextSeq, lastCall,
          appended, calls, returned, fn, client, node, whisper>>

NodeConns == {"c1", "c2"}

\* ActionExecutor.constructor: the simulated device states
\* JavaScript values: null or undefined, a number, a string
JsNull == [t |-> "null"]
JsNum(n) == [t |-> "number", v |-> n]
JsStr(str) == [t |-> "string", v |-> str]

InitialDeviceState ==
    [lights |-> FALSE, temperature |-> JsNum(72), musicPlaying |-> FALSE,
     currentSong |-> JsNull, activeTimers |-> <<>>]

NoExec ==
    [conn |-> "", cmd |-> 0,
     intent |-> [intent |-> "", parameters |-> [minutes |-> JsNull, seconds |-> JsNull,
                                                value |-> JsNull, query |-> JsNull]],
     success |-> FALSE, called |-> FALSE]

\* The Node.js server after start: no connection, no message.  sent is what
\* ws.send was called with, per connection; interpreting and executing are
\* the handleSTT calls suspended at their first and second await; completed,
\* applied and lastExec are history.
NoNode ==
    [deviceState |-> InitialDeviceState,
     connected |-> {},
     sent |-> [c \in NodeConns |-> <<>>],
     interpreting |-> {}, executing |-> {},
     received |-> 0,
     completed |-> <<>>, applied |-> <<>>, lastExec |-> NoExec]

\* new WhisperEngine(), initialized: not listening, nothing recorded.  A
\* chunk is the number it was recorded as; inFlight holds the audioData of
\* the transcribe calls that have not returned; recorded and transcriptions
\* (the audioData of the calls that have returned) are history.
NoWhisper ==
    [isListening |-> FALSE, isProcessing |-> FALSE, audioChunks |-> <<>>,
     recorded |-> 0, inFlight |-> {}, transcriptions |-> <<>>]

\* new WebSocketClient(url): no socket yet (ws: this.ws is not null; socket:
\* the state of the socket made last); scheduled, closes, opens, emitted and
\* disconnected (the application has called disconnect() and not connect()
\* since) are history
NoClient ==
    [socket |-> "none", ws |-> FALSE, connected |-> FALSE, reconnectAttempts |-> 0,
     reconnectDelay |-> 2000, timer |-> 0,
     scheduled |-> <<>>, closes |-> 0, opens |-> 0, emitted |-> "none",
     disconnected |-> FALSE]

NoCall ==
    [outcome |-> "none", sid |-> "", seq |-> 0, text |-> <<>>, threw |-> FALSE,
     toolCall |-> ToolCall(Null, NullParams), result |-> createErrorAction(Null)]

NoReturn ==
    [sid |-> "", now |-> 0, existed |-> FALSE, before |-> NewContext("", 0),
     context |-> NewContext("", 0)]

NoFn == [op |-> "none", phase |-> "none"]

Init ==
    /\ conn = [s \in Sessions |-> "idle"]
    /\ contexts = <<>>
    /\ clock = 0
    /\ inflight = {}
    /\ outbox = [s \in Sessions |-> <<>>]
    /\ nmsgs = 0
    /\ nextSeq = [s \in Sessions |-> 0]
    /\ lastCall = NoCall
    /\ appended = [s \in Sessions |-> <<>>]
    /\ calls = 0
    /\ returned = NoReturn
    /\ fn = NoFn
    /\ client = NoClient
    /\ node = NoNode
    /\ whisper = NoWhisper

(***************************************************************************)
(* Envelopes.  cmd is a history field: the number of the final command the *)
(* envelope answers, 0 for every other envelope.                           *)
(***************************************************************************)
Envelope(type, message, cmd) == [type |-> type, message |-> message, cmd |-> cmd]

\* IntentWebSocketHandler.createWelcomeMessage
createWelcomeMessage ==
    Envelope("system", "Connected to Voice Intent Interpreter (Java/Spring Boot)", 0)

\* createErrorResponse that labels the envelope as a system message
createErrorResponse_AsSystem(message, cmd) == Envelope("system", message, cmd)

\* IntentWebSocketHandler.createErrorResponse
createErrorResponse(message, cmd) == Envelope("error", message, cmd)

\* createPartialResponse that does not echo the text
createPartialResponse_NoEcho(text) == Envelope("partial", <<>>, 0)

\* IntentWebSocketHandler.createPartialResponse
createPartialResponse(text) == Envelope("partial", text, 0)

\* IntentWebSocketHandler.createPongResponse
createPongResponse == Envelope("pong", Null, 0)

\* String.toUpperCase over the tool names of the model
toUpperCase(t) ==
    CASE t = "navigate" -> "NAVIGATE"
      [] t = "unknown" -> "UNKNOWN"
      [] t = "dance" -> "DANCE"
      [] t = "error" -> "ERROR"
      [] OTHER -> t

\* IntentWebSocketHandler.createActionResultResponse: responseData is built
\* from the tool call and the result and logged; what is returned is the
\* fixed myResponseData
createActionResultResponse(toolCall, actionResult, cmd) ==
    LET intent == [intent |-> toUpperCase(toolCall.tool), params |-> toolCall.params,
                   confidence |-> "1.0"]
        responseData == [type |-> "action_result", intent |-> intent,
                         result |-> actionResult, cmd |-> cmd]
        myResponseData ==
            [type |-> "action_result",
             result |-> [success |-> TRUE, message |-> "This is a TEST message"],
             intent |-> [confidence |-> "1.0"], cmd |-> cmd]
    IN myResponseData

Emit(s, envelope) == outbox' = [outbox EXCEPT ![s] = Append(@, envelope)]

\* The history of added turns follows the map: the entry of a session that
\* is swept or cleared, or not there yet, has had no turn added.
AppendedGet(now) ==
    [t \in Sessions |->
        IF t \in DOMAIN cleanupExpiredContexts(contexts, now) THEN appended[t] ELSE <<>>]
AppendedUpdate(sid, turn, now) ==
    [AppendedGet(now) EXCEPT ![sid] = Append(@, turn)]
AppendedClear(sid) == [appended EXCEPT ![sid] = <<>>]

(***************************************************************************)
(* IntentWebSocketHandler                                                  *)
(***************************************************************************)
Call(outcome, s, seq, text, interpreted, executed) ==
    [outcome |-> outcome, sid |-> s, seq |-> seq, text |-> text,
     threw |-> interpreted.threw \/ executed.threw,
     toolCall |-> interpreted.toolCall, result |-> executed.result]

\* handleSTT from the interpreted tool call on: toolExecutor.execute, then
\* contextService.updateContext, then createActionResultResponse; onErrorResume
\* turns an exception anywhere before into an error envelope.  A response for
\* a connection that has terminated is dropped.
Dispatch(s, seq, text, interpreted, outcome) ==
    LET executed == IF interpreted.threw THEN ExecThrew
                    ELSE execute(interpreted.toolCall)
        turn == Turn(text, interpreted.toolCall.tool, executed.result.action,
                     clock, seq)
        response ==
            IF interpreted.threw \/ executed.threw
            THEN createErrorResponse("Failed to process STT: NullPointerException", seq)
            ELSE createActionResultResponse(interpreted.toolCall, executed.result, seq)
    IN /\ IF interpreted.threw \/ executed.threw
          THEN UNCHANGED <<contexts, appended>>
          ELSE /\ contexts' = updateContext(contexts, s, turn, clock)
               /\ appended' = AppendedUpdate(s, turn, clock)
       /\ IF conn[s] = "open" THEN Emit(s, response) ELSE UNCHANGED outbox
       /\ lastCall' = Call(outcome, s, seq, text, interpreted, executed)

\* handleSTT, with IntentService.interpret up to the completion-service call
handleSTT(s, request) ==
    IF ~request.hasText \/ trim(request.text) = <<>>
    THEN /\ Emit(s, createErrorResponse("Empty STT text", 0))
         /\ UNCHANGED <<contexts, inflight, nextSeq, lastCall, appended>>
    ELSE IF request.partial = "true"
    THEN /\ Emit(s, createPartialResponse(request.text))
         /\ UNCHANGED <<contexts, inflight, nextSeq, lastCall, appended>>
    ELSE LET seq == nextSeq[s] + 1
             begun == interpretPrompt(JavaString(request.text), s, contexts, clock)
         IN /\ nextSeq' = [nextSeq EXCEPT ![s] = seq]
            /\ IF begun.done
               THEN /\ Dispatch(s, seq, request.text,
                                [threw |-> FALSE, toolCall |-> begun.toolCall],
                                "skipped")
                    /\ UNCHANGED inflight
               ELSE /\ contexts' = begun.contexts
                    /\ appended' = AppendedGet(clock)
                    /\ inflight' = inflight \cup
                          {[sid |-> s, seq |-> seq, text |-> request.text,
                            sanitized |-> begun.sanitized,
                            context |-> begun.context]}
                    /\ UNCHANGED <<outbox, lastCall>>

\* handle that creates the session's context when the connection is accepted
Connect_CreatesEntry(s) ==
    /\ conn[s] = "idle"
    /\ conn' = [conn EXCEPT ![s] = "open"]
    /\ Emit(s, createWelcomeMessage)
    /\ contexts' = getContext(contexts, s, clock)
    /\ UNCHANGED <<clock, inflight, nmsgs, nextSeq, lastCall,
                   appended, calls, returned, fn, client, node, whisper>>

\* handle: the connection is accepted and the welcome message is the first
\* element of the output
Connect(s) ==
    /\ conn[s] = "idle"
    /\ conn' = [conn EXCEPT ![s] = "open"]
    /\ Emit(s, createWelcomeMessage)
    /\ UNCHANGED <<contexts, clock, inflight, nmsgs, nextSeq, lastCall,
                   appended, calls, returned, fn, client, node, whisper>>

\* handleMessage subscribed only when the one before it has completed
\* (concatMap in place of flatMap)
HandleMessage_Serialized(s, payload) ==
    /\ \A c \in inflight : c.sid # s
    /\ conn[s] = "open"
    /\ nmsgs < MaxMsgs
    /\ nmsgs' = nmsgs + 1
    /\ IF ~payload.json
       THEN UNCHANGED <<contexts, inflight, outbox, nextSeq, lastCall, appended>>
       ELSE LET request == payload.request
                type == IF request.type # Null THEN request.type ELSE "stt"
            IN CASE type = "ping" ->
                      /\ Emit(s, createPongResponse)
                      /\ UNCHANGED <<contexts, inflight, nextSeq, lastCall, appended>>
                 [] type = "stt" -> handleSTT(s, request)
                 [] OTHER ->
                      /\ Emit(s, createErrorResponse(
                                    "Unknown message type: " \o request.type, 0))
                      /\ UNCHANGED <<contexts, inflight, nextSeq, lastCall, appended>>
    /\ UNCHANGED <<conn, clock, calls, returned, fn, client, node, whisper>>

\* handleMessage, subscribed by flatMap as soon as the frame is received
HandleMessage(s, payload) ==
    /\ conn[s] = "open"
    /\ nmsgs < MaxMsgs
    /\ nmsgs' = nmsgs + 1
    /\ IF ~payload.json
       THEN \* the callable returns null: the Mono completes empty
            UNCHANGED <<contexts, inflight, outbox, nextSeq, lastCall, appended>>
       ELSE LET request == payload.request
                type == IF request.type # Null THEN request.type ELSE "stt"
            IN CASE type = "ping" ->
                      /\ Emit(s, createPongResponse)
                      /\ UNCHANGED <<contexts, inflight, nextSeq, lastCall, appended>>
                 [] type = "stt" -> handleSTT(s, request)
                 [] OTHER ->
                      /\ Emit(s, createErrorResponse(
                                    "Unknown message type: " \o request.type, 0))
                      /\ UNCHANGED <<contexts, inflight, nextSeq, lastCall, appended>>
    /\ UNCHANGED <<conn, clock, calls, returned, fn, client, node, whisper>>

\* the pending final commands number seq of session s (at most one)
Pending(s, seq) == {c \in inflight : c.sid = s /\ c.seq = seq}

\* The completion-service call of pending final command seq of session s
\* ends with outcome; the rest of interpret and of handleSTT runs: nothing
\* of it when generate completes empty (every stage downstream is a map or
\* a flatMap of the value).  On a connection that has terminated this is the
\* signal that races with the cancellation.
Complete(s, seq, outcome) ==
    \E c \in Pending(s, seq) :
        /\ inflight' = inflight \ {c}
        /\ IF generateEmpty(outcome)
           THEN UNCHANGED <<contexts, outbox, lastCall, appended>>
           ELSE Dispatch(s, seq, c.text, interpretResponse(generate(outcome)),
                         outcome.kind)
        /\ UNCHANGED <<conn, clock, nmsgs, nextSeq, calls, returned, fn, client, node, whisper>>

\* The pending call of a terminated connection is cancelled before it signals
Cancel(s, seq) ==
    \E c \in Pending(s, seq) :
        /\ conn[s] = "closed"
        /\ inflight' = inflight \ {c}
        /\ UNCHANGED <<conn, contexts, clock, outbox, nmsgs, nextSeq, lastCall,
                       appended, calls, returned, fn, client, node, whisper>>

\* handle, doOnTerminate: the connection ends
Disconnect(s) ==
    /\ conn[s] = "open"
    /\ conn' = [conn EXCEPT ![s] = "closed"]
    /\ contexts' = clearContext(contexts, s)
    /\ appended' = AppendedClear(s)
    /\ UNCHANGED <<clock, inflight, outbox, nmsgs, nextSeq, lastCall, calls, returned, fn, client, node, whisper>>

\* time passes
Tick ==
    /\ clock + TickStep <= MaxClock
    /\ clock' = clock + TickStep
    /\ UNCHANGED <<conn, contexts, inflight, outbox, nmsgs, nextSeq, lastCall,
                   appended, calls, returned, fn, client, node, whisper>>

Next ==
    \/ \E s \in Sessions : Connect(s)
    \/ \E s \in Sessions, payload \in Payloads : HandleMessage(s, payload)
    \/ \E s \in Sessions, seq \in 1..MaxMsgs, outcome \in Outcomes :
          Complete(s, seq, outcome)
    \/ \E s \in Sessions, seq \in 1..MaxMsgs : Cancel(s, seq)
    \/ \E s \in Sessions : Disconnect(s)
    \/ Tick

Spec == Init /\ [][Next]_vars

\* SpecLive: the completion-service call of a pending command ends of its
\* own: with the reply, or when the timeout of generate fires
Fairness ==
    \A s \in Sessions, seq \in 1..MaxMsgs :
        WF_vars(\E outcome \in Outcomes : Complete(s, seq, outcome))

SpecLive == Spec /\ Fairness

(***************************************************************************)
(* SpecCtx: the ContextService API called directly                         *)
(***************************************************************************)
\* the (intent, action) pair a caller records
TurnKinds == {<<"navigate", "NAVIGATE">>}

\* getContext that stamps the entry it returns as accessed
CtxGet_Touch(s) ==
    /\ calls < MaxCalls
    /\ calls' = calls + 1
    /\ contexts' = [getContext(contexts, s, clock) EXCEPT ![s].lastAccessedAt = clock]
    /\ appended' = AppendedGet(clock)
    /\ returned' = [sid |-> s, now |-> clock, existed |-> s \in DOMAIN contexts,
                    before |-> IF s \in DOMAIN contexts THEN contexts[s]
                               ELSE NewContext("", 0),
                    context |-> contexts'[s]]
    /\ UNCHANGED <<conn, clock, inflight, outbox, nmsgs, nextSeq, lastCall, fn, client, node, whisper>>

\* contextService.getContext(s)
CtxGet(s) ==
    /\ calls < MaxCalls
    /\ calls' = calls + 1
    /\ contexts' = getContext(contexts, s, clock)
    /\ appended' = AppendedGet(clock)
    /\ returned' = [sid |-> s, now |-> clock, existed |-> s \in DOMAIN contexts,
                    before |-> IF s \in DOMAIN contexts THEN contexts[s]
                               ELSE NewContext("", 0),
                    context |-> contexts'[s]]
    /\ UNCHANGED <<conn, clock, inflight, outbox, nmsgs, nextSeq, lastCall, fn, client, node, whisper>>

\* contextService.updateContext(s, userText, intent, action)
CtxUpdate(s, kind) ==
    /\ calls < MaxCalls
    /\ calls' = calls + 1
    /\ nextSeq' = [nextSeq EXCEPT ![s] = @ + 1]
    /\ LET turn == Turn(<<"a">>, kind[1], kind[2], clock, nextSeq'[s])
       IN /\ contexts' = updateContext(contexts, s, turn, clock)
          /\ appended' = AppendedUpdate(s, turn, clock)
    /\ UNCHANGED <<conn, clock, inflight, outbox, nmsgs, lastCall, returned, fn, client, node, whisper>>

\* contextService.clearContext(s)
CtxClear(s) ==
    /\ calls < MaxCalls
    /\ calls' = calls + 1
    /\ contexts' = clearContext(contexts, s)
    /\ appended' = AppendedClear(s)
    /\ UNCHANGED <<conn, clock, inflight, outbox, nmsgs, nextSeq, lastCall, returned, fn, client, node, whisper>>

\* contextService.getActiveContextCount()
CtxCount ==
    /\ calls < MaxCalls
    /\ calls' = calls + 1
    /\ contexts' = cleanupExpiredContexts(contexts, clock)
    /\ appended' = [t \in Sessions |->
                      IF t \in DOMAIN contexts' THEN appended[t] ELSE <<>>]
    /\ UNCHANGED <<conn, clock, inflight, outbox, nmsgs, nextSeq, lastCall, returned, fn, client, node, whisper>>

NextCtx ==
    \/ \E s \in Sessions : CtxGet(s)
    \/ \E s \in Sessions, kind \in TurnKinds : CtxUpdate(s, kind)
    \/ \E s \in Sessions : CtxClear(s)
    \/ CtxCount
    \/ Tick

SpecCtx == Init /\ [][NextCtx]_vars

(***************************************************************************)
(* SpecFn: sanitizeText, isValidToolCall, execute and interpret called     *)
(* directly.  The initial state holds the arguments of one call; the call  *)
(* is one step.                                                            *)
(***************************************************************************)
\* the texts of at most n characters
RECURSIVE TextsUpTo(_)
TextsUpTo(n) ==
    IF n = 0 THEN {<<>>}
    ELSE LET shorter == TextsUpTo(n - 1)
         IN shorter \cup {Append(t, ch) : t \in shorter, ch \in Chars}

ShortTexts == TextsUpTo(MaxShortLen)

\* Texts around MAX_TEXT_LENGTH: printable characters, then a short tail
\* that straddles the cut, behind nothing or a leading space
Pad(n) == [i \in 1..n |-> "a"]
LongTexts ==
    {lead \o Pad(n) \o tail :
        lead \in {<<>>, <<"sp">>},
        n \in (MAX_TEXT_LENGTH - MaxShortLen)..MAX_TEXT_LENGTH,
        tail \in ShortTexts}

SanitizeInputs == {NullString} \cup {JavaString(t) : t \in ShortTexts \cup LongTexts}

\* parameter values: null, or a string of a length at or next to a limit
FnValues ==
    {NullVal, Str("", 0), Str("settings", 8),
     Str("long", MAX_PARAM_LENGTH), Str("long", MAX_PARAM_LENGTH + 1),
     Str("long", MAX_TEXT_LENGTH), Str("long", MAX_TEXT_LENGTH + 1)}

FnParams ==
    {NullParams, EmptyParams}
    \cup {Params(k :> v) :
             k \in {"page", "field", "value", "subject", "body", "text"},
             v \in FnValues}
    \cup {Params("field" :> v @@ "value" :> w) : v \in FnValues, w \in FnValues}
    \cup {Params("subject" :> v @@ "body" :> w) : v \in FnValues, w \in FnValues}

FnTools ==
    {Null, "", "navigate", "NAVIGATE", "save_form", "trigger_email",
     "submit_form", "unknown", "Unknown", "dance", "error"}

FnToolCalls ==
    {NullToolCall} \cup {ToolCall(t, p) : t \in FnTools, p \in FnParams}

\* replies of the completion service: every object above, text that is not
\* JSON, the JSON literal null, and code fences around some of them
FnDocs ==
    {Doc("garbage", Null, NullParams), Doc("null", Null, NullParams)}
    \cup {Doc("object", t, p) : t \in FnTools, p \in FnParams}

FencedDocs ==
    {Doc("garbage", Null, NullParams), Doc("object", Null, EmptyParams),
     Doc("object", "navigate", Params("page" :> Str("settings", 8)))}

FnResponses ==
    {Plain(doc) : doc \in FnDocs}
    \cup {Response(open, doc, close) :
             open \in {"", FENCE_JSON, FENCE}, doc \in FencedDocs, close \in BOOLEAN}

FnOutcomes ==
    {Failure, EmptyBody} \cup {[kind |-> "reply", response |-> r] : r \in FnResponses}

FnTexts ==
    {NullString, JavaString(<<>>), JavaString(<<"sp">>), JavaString(<<"del">>),
     JavaString(<<"sp", "ctl", "del">>), JavaString(<<"a">>),
     JavaString(<<"del", "a", "sp">>)}

FnCall(op, arg) == [op |-> op, phase |-> "call", arg |-> arg]
FnResult(out) == [op |-> fn.op, phase |-> "result", arg |-> fn.arg, out |-> out]

FnInputs ==
    {FnCall("sanitizeText", x) : x \in SanitizeInputs}
    \cup {FnCall("isValidToolCall", c) : c \in FnToolCalls}
    \cup {FnCall("execute", c) : c \in FnToolCalls}
    \cup {FnCall("isValidToolCall, execute", c) : c \in FnToolCalls}
    \cup {FnCall("interpret", [text |-> t, sessionId |-> sid]) :
             t \in FnTexts, sid \in {"", "s1"}}

\* the Context Store before the call: empty, or holding the session's entry
InitFn ==
    /\ conn = [s \in Sessions |-> "idle"]
    /\ contexts \in {<<>>, "s1" :> NewContext("s1", 0)}
    /\ clock = 0
    /\ inflight = {}
    /\ outbox = [s \in Sessions |-> <<>>]
    /\ nmsgs = 0
    /\ nextSeq = [s \in Sessions |-> 0]
    /\ lastCall = NoCall
    /\ appended = [s \in Sessions |-> <<>>]
    /\ calls = 0
    /\ returned = NoReturn
    /\ fn \in FnInputs
    /\ client = NoClient
    /\ node = NoNode
    /\ whisper = NoWhisper

FnFrame ==
    UNCHANGED <<conn, clock, inflight, outbox, nmsgs, nextSeq, lastCall,
                appended, calls, returned, client, node, whisper>>

\* validationService.sanitizeText(x), and again on what it returned
FnSanitize ==
    /\ fn.op = "sanitizeText" /\ fn.phase = "call"
    /\ LET once == sanitizeText(fn.arg)
       IN fn' = FnResult([once |-> once, twice |-> sanitizeText(JavaString(once))])
    /\ UNCHANGED contexts
    /\ FnFrame

\* validationService.isValidToolCall(toolCall)
FnValidate ==
    /\ fn.op = "isValidToolCall" /\ fn.phase = "call"
    /\ fn' = FnResult(isValidToolCall(fn.arg))
    /\ UNCHANGED contexts
    /\ FnFrame

\* toolExecutor.execute(toolCall)
FnExecute ==
    /\ fn.op = "execute" /\ fn.phase = "call"
    /\ fn' = FnResult(execute(fn.arg))
    /\ UNCHANGED contexts
    /\ FnFrame

\* validationService.isValidToolCall(toolCall) and
\* toolExecutor.execute(toolCall) on one command
FnValidateExecute ==
    /\ fn.op = "isValidToolCall, execute" /\ fn.phase = "call"
    /\ fn' = FnResult([valid |-> isValidToolCall(fn.arg), executed |-> execute(fn.arg)])
    /\ UNCHANGED contexts
    /\ FnFrame

\* intentService.interpret(text, sessionId); the completion-service call, if
\* made, ends with outcome
FnInterpret(outcome) ==
    /\ fn.op = "interpret" /\ fn.phase = "call"
    /\ LET out == interpret(fn.arg.text, fn.arg.sessionId, contexts, clock, outcome)
       IN /\ fn' = FnResult([threw |-> out.threw, toolCall |-> out.toolCall,
                             generated |-> out.generated, empty |-> out.empty,
                             read |-> out.read, parsed |-> out.parsed,
                             response |-> IF out.generated /\ ~out.empty
                                         THEN generate(outcome)
                                         ELSE Plain(Doc("garbage", Null, NullParams))])
          /\ contexts' = out.contexts
    /\ FnFrame

NextFn ==
    \/ FnSanitize
    \/ FnValidate
    \/ FnExecute
    \/ FnValidateExecute
    \/ \E outcome \in FnOutcomes : FnInterpret(outcome)

SpecFn == InitFn /\ [][NextFn]_vars

(***************************************************************************)
(* SpecWs: the browser's WebSocketClient (frontend), its socket and its     *)
(* reconnect timer.  The application calls connect() once; the URL is a     *)
(* constant that the WebSocket constructor accepts.                        *)
(***************************************************************************)

RECURSIVE pow(_, _)
pow(b, e) == IF e = 0 THEN 1 ELSE b * pow(b, e - 1)

\* this.reconnectDelay * Math.pow(1.5, n - 1), in milliseconds (whole numbers
\* for every n up to maxReconnectAttempts)
backoff(reconnectDelay, n) == (reconnectDelay * pow(3, n - 1)) \div pow(2, n - 1)

WsFrame ==
    UNCHANGED <<conn, contexts, clock, inflight, outbox, nmsgs, nextSeq, lastCall,
                appended, calls, returned, fn, node, whisper>>

\* connect(), called by the application
WsConnect ==
    /\ client.socket = "none"
    /\ client' = [client EXCEPT !.socket = "connecting", !.ws = TRUE,
                                !.disconnected = FALSE]
    /\ WsFrame

\* ws.onopen
WsOpen ==
    /\ client.socket = "connecting"
    /\ client.opens < MaxOpens
    /\ client' = [client EXCEPT !.socket = "open", !.connected = TRUE,
                                !.reconnectAttempts = 0, !.reconnectDelay = 2000,
                                !.scheduled = <<>>, !.closes = 0,
                                !.opens = @ + 1, !.emitted = "onConnect"]
    /\ WsFrame

\* ws.onerror: the connection failed or broke; the close event follows
WsError ==
    /\ client.socket \in {"connecting", "open"}
    /\ client' = [client EXCEPT !.socket = "failed", !.emitted = "onError: connection"]
    /\ WsFrame

\* disconnect(), called by the application: ws.close() (the close event
\* follows; nothing happens to a socket that has closed), this.ws = null
WsDisconnect ==
    /\ client.ws
    /\ client' = [client EXCEPT !.socket = IF @ \in {"connecting", "open"}
                                           THEN "closing" ELSE @,
                                !.ws = FALSE, !.connected = FALSE,
                                !.disconnected = TRUE]
    /\ WsFrame

\* attemptReconnect that gives up one attempt later
attemptReconnect_OneMore(c) ==
    IF c.reconnectAttempts >= maxReconnectAttempts + 1
    THEN [c EXCEPT !.emitted = "onError: reconnect"]
    ELSE LET n == c.reconnectAttempts + 1
             delay == backoff(c.reconnectDelay, n)
         IN [c EXCEPT !.reconnectAttempts = n, !.timer = delay,
                      !.scheduled = Append(@, delay)]

\* attemptReconnect
attemptReconnect(c) ==
    IF c.reconnectAttempts >= maxReconnectAttempts
    THEN [c EXCEPT !.emitted = "onError: reconnect"]
    ELSE LET n == c.reconnectAttempts + 1
             delay == backoff(c.reconnectDelay, n)
         IN [c EXCEPT !.reconnectAttempts = n, !.timer = delay,
                      !.scheduled = Append(@, delay)]

\* ws.onclose: onDisconnect is emitted, then attemptReconnect runs
WsClose ==
    /\ client.socket \in {"open", "failed", "closing"}
    /\ client' = attemptReconnect([client EXCEPT !.socket = "closed",
                                                 !.connected = FALSE,
                                                 !.closes = @ + 1,
                                                 !.emitted = "onDisconnect"])
    /\ WsFrame

\* the setTimeout callback of attemptReconnect: connect()
WsTimer ==
    /\ client.timer # 0
    /\ client' = [client EXCEPT !.timer = 0, !.socket = "connecting", !.ws = TRUE]
    /\ WsFrame

NextWs ==
    \/ WsConnect
    \/ WsOpen
    \/ WsError
    \/ WsDisconnect
    \/ WsClose
    \/ WsTimer

SpecWs == Init /\ [][NextWs]_vars

(***************************************************************************)
(* SpecNode: the Node.js server (server.js) with its module-level          *)
(* IntentInterpreter and ActionExecutor.  An intent is                     *)
(* [intent, parameters]; interpret resolves with the intent that the       *)
(* pattern table or the completion service yields for the text, or with    *)
(* UNKNOWN or ERROR.  parameters is never null: every return of            *)
(* interpretWithPatterns builds one and interpretWithLLM has                *)
(* result.parameters || {}.                                                *)
(***************************************************************************)

NodeParams(minutes, seconds, value, query) ==
    [minutes |-> minutes, seconds |-> seconds, value |-> value, query |-> query]

NoParams == NodeParams(JsNull, JsNull, JsNull, JsNull)

NodeIntent(intent, parameters) == [intent |-> intent, parameters |-> parameters]

\* what interpret can resolve with
NodeIntents ==
    {NodeIntent("TURN_ON_LIGHT", NoParams),
     NodeIntent("TURN_OFF_LIGHT", NoParams),
     NodeIntent("SEARCH_WEATHER", NoParams),
     NodeIntent("PLAY_MUSIC", NodeParams(JsNull, JsNull, JsNull, JsStr("jazz"))),
     NodeIntent("SET_TIMER", NodeParams(JsNum(0), JsNum(0), JsNull, JsNull)),
     NodeIntent("SET_TIMER", NodeParams(JsNum(1), JsNum(0), JsNull, JsNull)),
     NodeIntent("SET_TEMPERATURE", NodeParams(JsNull, JsNull, JsNull, JsNull)),
     NodeIntent("SET_TEMPERATURE", NodeParams(JsNull, JsNull, JsNum(68), JsNull)),
     NodeIntent("SEND_MESSAGE", NoParams),
     NodeIntent("UNKNOWN", NoParams),
     NodeIntent("ERROR", NoParams)}

\* JavaScript's !a: null, undefined, 0 and "" are falsy
JsNot(a) ==
    \/ a.t = "null"
    \/ a.t = "number" /\ a.v = 0
    \/ a.t = "string" /\ a.v = ""

\* JavaScript's a || b
JsOr(a, b) == IF JsNot(a) THEN b ELSE a

NodeResult(ds, success, message) ==
    [deviceState |-> ds, success |-> success, message |-> message]

\* ActionExecutor.turnOnLight
turnOnLight(ds) == NodeResult([ds EXCEPT !.lights = TRUE], TRUE, "Lights turned ON")

\* ActionExecutor.turnOffLight
turnOffLight(ds) == NodeResult([ds EXCEPT !.lights = FALSE], TRUE, "Lights turned OFF")

\* ActionExecutor.getWeather: mock data, the device state is not read
getWeather(ds, params) == NodeResult(ds, TRUE, "Weather")

\* ActionExecutor.playMusic
playMusic(ds, params) ==
    NodeResult([ds EXCEPT !.musicPlaying = TRUE,
                          !.currentSong = JsOr(params.query, JsStr("Random Song"))],
               TRUE, "Playing")

\* setTimer that registers the timer before it checks the duration
setTimer_PushFirst(ds, params) ==
    LET minutes == JsOr(params.minutes, JsNum(0)).v
        seconds == JsOr(params.seconds, JsNum(0)).v
        totalSeconds == minutes * 60 + seconds
        pushed == [ds EXCEPT !.activeTimers =
                      Append(@, [duration |-> totalSeconds, remaining |-> totalSeconds])]
    IN IF totalSeconds = 0
       THEN NodeResult(pushed, FALSE, "Please specify a duration")
       ELSE NodeResult(pushed, TRUE, "Timer set")

\* ActionExecutor.setTimer (the timer's id, Date.now(), is left out)
setTimer(ds, params) ==
    LET minutes == JsOr(params.minutes, JsNum(0)).v
        seconds == JsOr(params.seconds, JsNum(0)).v
        totalSeconds == minutes * 60 + seconds
    IN IF totalSeconds = 0
       THEN NodeResult(ds, FALSE, "Please specify a duration")
       ELSE NodeResult([ds EXCEPT !.activeTimers =
                           Append(@, [duration |-> totalSeconds,
                                      remaining |-> totalSeconds])],
                       TRUE, "Timer set")

\* ActionExecutor.setTemperature
setTemperature(ds, params) ==
    IF JsNot(params.value)
    THEN NodeResult(ds, FALSE, "Please specify a temperature")
    ELSE NodeResult([ds EXCEPT !.temperature = params.value], TRUE, "Temperature set")

\* ActionExecutor.execute: the device state after the call and the result
ActionExecutor_execute(ds, intent) ==
    CASE intent.intent = "TURN_ON_LIGHT" -> turnOnLight(ds)
      [] intent.intent = "TURN_OFF_LIGHT" -> turnOffLight(ds)
      [] intent.intent = "SEARCH_WEATHER" -> getWeather(ds, intent.parameters)
      [] intent.intent = "PLAY_MUSIC" -> playMusic(ds, intent.parameters)
      [] intent.intent = "SET_TIMER" -> setTimer(ds, intent.parameters)
      [] intent.intent = "SET_TEMPERATURE" -> setTemperature(ds, intent.parameters)
      [] OTHER -> NodeResult(ds, FALSE, "Unknown intent")

\* getState that answers with the state of a fresh executor
getState_Fresh(ds) == InitialDeviceState

\* ActionExecutor.getState
getState(ds) == ds

\* handleSTT that executes every interpreted intent but UNKNOWN
isKnownIntent_ErrorToo(intent) == intent.intent # "UNKNOWN"

\* handleSTT, the test of step 2: the intent is executed
isKnownIntent(intent) == intent.intent # "UNKNOWN" /\ intent.intent # "ERROR"

\* an inbound message of the Node.js server
NodeMessages ==
    {[type |-> "ping", text |-> Null, partial |-> FALSE],
     [type |-> "get_state", text |-> Null, partial |-> FALSE],
     [type |-> "stt", text |-> "a", partial |-> FALSE],
     [type |-> "stt", text |-> "a", partial |-> TRUE],
     [type |-> "stt", text |-> " ", partial |-> FALSE],
     [type |-> "other", text |-> Null, partial |-> FALSE],
     [type |-> "malformed", text |-> Null, partial |-> FALSE]}

\* ws.send(JSON.stringify(...)): cmd is history, the number of the final
\* command the envelope belongs to
NodeEnvelope(type, cmd, intent, body) ==
    [type |-> type, cmd |-> cmd, intent |-> intent, body |-> body]

NodeSend(nd, c, envelope) == [nd EXCEPT !.sent[c] = Append(@, envelope)]

NodeFrame ==
    UNCHANGED <<conn, contexts, clock, inflight, outbox, nmsgs, nextSeq, lastCall,
                appended, calls, returned, fn, client, whisper>>

\* wss.on('connection')
NodeConnection(c) ==
    /\ c \notin node.connected
    /\ node' = NodeSend([node EXCEPT !.connected = @ \cup {c}], c,
                        NodeEnvelope("system", 0, Null, Null))
    /\ NodeFrame

\* ws.on('message') down to the first await of handleSTT
NodeMessage(c, message) ==
    /\ c \in node.connected
    /\ node.received < MaxNodeMsgs
    /\ LET got == [node EXCEPT !.received = @ + 1]
           cmd == node.received + 1
       IN node' =
            CASE message.type = "malformed" ->
                   NodeSend(got, c, NodeEnvelope("error", 0, Null, "Invalid message format"))
              [] message.type = "ping" ->
                   NodeSend(got, c, NodeEnvelope("pong", 0, Null, Null))
              [] message.type = "get_state" ->
                   NodeSend(got, c, NodeEnvelope("state", 0, Null, getState(node.deviceState)))
              [] message.type = "stt" ->
                   IF message.text = Null \/ message.text = " "
                   THEN NodeSend(got, c, NodeEnvelope("error", 0, Null, "Empty STT text"))
                   ELSE IF message.partial
                   THEN NodeSend(got, c, NodeEnvelope("partial", 0, Null, message.text))
                   ELSE [got EXCEPT !.interpreting = @ \cup {[conn |-> c, cmd |-> cmd]}]
              [] OTHER ->
                   NodeSend(got, c, NodeEnvelope("error", 0, Null, "Unknown message type"))
    /\ NodeFrame

\* handleSTT resumes with the interpreted intent: the intent envelope is
\* sent and, for a known intent, actionExecutor.execute is called; execute
\* runs up to its return (or, in getWeather, up to its await) in this call
NodeInterpreted(c, cmd, intent) ==
    /\ [conn |-> c, cmd |-> cmd] \in node.interpreting
    /\ LET told == NodeSend([node EXCEPT !.interpreting = @ \ {[conn |-> c, cmd |-> cmd]},
                                         !.completed = Append(@, cmd)],
                            c, NodeEnvelope("intent", cmd, intent.intent, Null))
           done == ActionExecutor_execute(node.deviceState, intent)
       IN node' =
            IF isKnownIntent(intent)
            THEN [told EXCEPT !.deviceState = done.deviceState,
                              !.executing = @ \cup {[conn |-> c, cmd |-> cmd,
                                                     intent |-> intent.intent,
                                                     success |-> done.success,
                                                     message |-> done.message]},
                              !.applied = Append(@, [conn |-> c, cmd |-> cmd,
                                                     intent |-> intent]),
                              !.lastExec = [conn |-> c, cmd |-> cmd, intent |-> intent,
                                            success |-> done.success, called |-> TRUE]]
            ELSE told
    /\ NodeFrame

\* handleSTT resumes with the result of execute: the action_result envelope
NodeExecuted(c, cmd) ==
    /\ \E e \in node.executing :
          /\ e.conn = c /\ e.cmd = cmd
          /\ node' = NodeSend([node EXCEPT !.executing = @ \ {e}], c,
                              NodeEnvelope("action_result", cmd, e.intent,
                                           [success |-> e.success, message |-> e.message]))
    /\ NodeFrame

NextNode ==
    \/ \E c \in NodeConns : NodeConnection(c)
    \/ \E c \in NodeConns, message \in NodeMessages : NodeMessage(c, message)
    \/ \E c \in NodeConns, cmd \in 1..MaxNodeMsgs, intent \in NodeIntents :
          NodeInterpreted(c, cmd, intent)
    \/ \E c \in NodeConns, cmd \in 1..MaxNodeMsgs : NodeExecuted(c, cmd)

SpecNode == Init /\ [][NextNode]_vars

(***************************************************************************)
(* SpecWhisper: the browser's WhisperEngine, initialized.  Durations are   *)
(* counted in chunks of audio (one onaudioprocess buffer).                 *)
(***************************************************************************)

WhisperFrame ==
    UNCHANGED <<conn, contexts, clock, inflight, outbox, nmsgs, nextSeq, lastCall,
                appended, calls, returned, fn, client, node>>

\* _processAudioChunk up to its await: all of audioChunks is handed to the
\* transcriber
processAudioChunk(w) ==
    IF w.audioChunks = <<>> THEN w
    ELSE [w EXCEPT !.isProcessing = TRUE, !.inFlight = @ \cup {w.audioChunks}]

\* startListening
WhisperStart ==
    /\ ~whisper.isListening
    /\ whisper' = [whisper EXCEPT !.audioChunks = <<>>, !.isListening = TRUE]
    /\ WhisperFrame

\* audioProcessor.onaudioprocess
WhisperAudio ==
    /\ whisper.isListening
    /\ whisper.recorded < MaxChunks
    /\ LET chunk == whisper.recorded + 1
           pushed == [whisper EXCEPT !.recorded = chunk,
                                     !.audioChunks = Append(@, chunk)]
       IN whisper' = IF Len(pushed.audioChunks) >= maxChunkDuration
                        /\ ~pushed.isProcessing
                     THEN processAudioChunk(pushed)
                     ELSE pushed
    /\ WhisperFrame

\* stopListening
WhisperStop ==
    /\ whisper.isListening
    /\ LET stopped == [whisper EXCEPT !.isListening = FALSE]
       IN whisper' = IF stopped.audioChunks # <<>> /\ ~stopped.isProcessing
                     THEN processAudioChunk(stopped)
                     ELSE stopped
    /\ WhisperFrame

\* _processAudioChunk after its await: transcribe has returned (ok) or has
\* thrown
WhisperTranscribed(ok) ==
    /\ \E audioData \in whisper.inFlight :
          whisper' = [whisper EXCEPT
                         !.inFlight = @ \ {audioData},
                         !.transcriptions = Append(@, audioData),
                         !.audioChunks = IF ok THEN <<>> ELSE @,
                         !.isProcessing = FALSE]
    /\ WhisperFrame

NextWhisper ==
    \/ WhisperStart
    \/ WhisperAudio
    \/ WhisperStop
    \/ \E ok \in BOOLEAN : WhisperTranscribed(ok)

SpecWhisper == Init /\ [][NextWhisper]_vars

(***************************************************************************)
(* Properties                                                              *)
(***************************************************************************)
SameEntry(t) ==
    /\ (t \in DOMAIN contexts) <=> (t \in DOMAIN contexts')
    /\ t \in DOMAIN contexts => contexts'[t] = contexts[t]

\* a step taken for session s by the gateway
OnBehalf(s) ==
    \/ Connect(s)
    \/ \E payload \in Payloads : HandleMessage(s, payload)
    \/ \E seq \in 1..MaxMsgs, outcome \in Outcomes : Complete(s, seq, outcome)
    \/ \E seq \in 1..MaxMsgs : Cancel(s, seq)
    \/ Disconnect(s)

\* the envelopes on connection s that answer final command number seq
Answers(s, seq) == {i \in 1..Len(outbox[s]) : outbox[s][i].cmd = seq}

RECURSIVE LastN(_, _)
LastN(seq, n) == IF Len(seq) > n THEN LastN(Tail(seq), n) ELSE seq

\* C1: final commands of one session are serialized: no two final commands
\* of the same session are being interpreted/dispatched at the same time.
C1_OneFinalCommandAtATime ==
    \A c1 \in inflight, c2 \in inflight : c1.sid = c2.sid => c1 = c2

\* C2: the turns of a session are in the submission order of their final
\* commands, whatever the relative latency of the completion-service calls.
C2_TurnsInSubmissionOrder ==
    \A s \in DOMAIN contexts :
        \A i \in 1..Len(contexts[s].turns), j \in 1..Len(contexts[s].turns) :
            i < j => contexts[s].turns[i].cmd < contexts[s].turns[j].cmd

\* C3: a final command is answered by exactly one action_result envelope and
\* by no error envelope, whatever happens inside interpretation, validation
\* or dispatch.
C3_FinalAnsweredByOneActionResult ==
    \A s \in Sessions : \A seq \in 1..nextSeq[s] :
        /\ Cardinality(Answers(s, seq)) <= 1
        /\ \A i \in Answers(s, seq) : outbox[s][i].type = "action_result"
        /\ (conn[s] = "open" /\ Pending(s, seq) = {}) => Answers(s, seq) # {}

C6_NoEntryAfterDisconnect ==
    \A s \in Sessions : conn[s] = "closed" => s \notin DOMAIN contexts

\* C7: a disconnect clears the entry of its session and leaves the entries
\* of all other sessions as they were.
C7_DisconnectClearsOwnEntryOnly ==
    [][\A s \in Sessions :
          Disconnect(s) =>
              /\ s \notin DOMAIN contexts'
              /\ \A t \in Sessions \ {s} : SameEntry(t)]_vars

C7_Witness ==
    /\ conn["s1"] = "closed"
    /\ clock = 0
    /\ lastCall.sid = "s1" /\ ~lastCall.threw
    /\ inflight = {}
    /\ "s1" \notin DOMAIN contexts
    /\ "s2" \in DOMAIN contexts /\ conn["s2"] = "open"

\* C8 (original): no step taken for session s changes, creates or removes
\* the entry of another session, the expiry sweep included.
C8_NoCrossSessionEffect ==
    [][\A s \in Sessions :
          OnBehalf(s) => \A t \in Sessions \ {s} : SameEntry(t)]_vars

\* C8 (amended): a step taken for session s leaves the entry of every other
\* session as it was, except that the expiry sweep it triggers removes the
\* entries of other sessions that were last accessed more than 30 minutes
\* ago.
C8_CrossSessionEffectIsExpiryOnly ==
    [][\A s \in Sessions :
          OnBehalf(s) =>
              \A t \in Sessions \ {s} :
                  \/ SameEntry(t)
                  \/ /\ t \in DOMAIN contexts
                     /\ clock - contexts[t].lastAccessedAt > CONTEXT_TIMEOUT
                     /\ t \notin DOMAIN contexts']_vars

C8_Witness ==
    /\ nextSeq["s2"] > 0 /\ conn["s2"] = "open"
    /\ "s2" \notin DOMAIN contexts
    /\ "s1" \in DOMAIN contexts

\* C9: a session's turn list never has more than 5 entries and equals the
\* last min(n, 5) of the n turns added to it, in the order they were added.
C9_TurnsAreLastFiveAdded ==
    \A s \in DOMAIN contexts :
        /\ Len(contexts[s].turns) <= 5
        /\ contexts[s].turns = LastN(appended[s], 5)

C9_Witness ==
    \E s \in DOMAIN contexts :
        /\ Len(appended[s]) = 6
        /\ Len(contexts[s].turns) = 5
        /\ contexts[s].turns[1] = appended[s][2]

\* C10: getContext never returns an expired session: an entry last accessed
\* more than 30 minutes before the call is replaced by a fresh one (no
\* turns, createdAt = lastAccessedAt = now); an entry last accessed 30
\* minutes ago or less is returned unchanged.
C10_GetContextNeverReturnsExpired ==
    returned.sid # "" =>
        LET age == returned.now - returned.before.lastAccessedAt
        IN /\ returned.now - returned.context.lastAccessedAt <= 30
           /\ (returned.existed /\ age > 30) =>
                  returned.context = NewContext(returned.sid, returned.now)
           /\ (returned.existed /\ age <= 30) =>
                  returned.context = returned.before

C10_Witness ==
    /\ returned.sid # ""
    /\ returned.existed
    /\ returned.now - returned.before.lastAccessedAt > 30
    /\ Len(returned.before.turns) > 0
    /\ returned.context.turns = <<>>

\* a finished direct call of op (SpecFn)
Called(op) == fn.op = op /\ fn.phase = "result"

\* Character.isISOControl: U+0000..U+001F and U+007F..U+009F
isISOControl(ch) == ch \in {"nl", "ctl", "del", "c1"}

\* C11: sanitize is idempotent: sanitizing the text that sanitize returned
\* gives that same text, also for a text longer than the maximum length
\* whose cut falls on or next to whitespace.
C11_SanitizeIdempotent ==
    Called("sanitizeText") => fn.out.twice = fn.out.once

\* C12: for every text, null included, the sanitized text has at most 1000
\* characters and holds no control character other than newline, carriage
\* return and tab.
C12_SanitizedBoundedNoControl ==
    Called("sanitizeText") =>
        /\ Len(fn.out.once) <= 1000
        /\ \A i \in 1..Len(fn.out.once) :
              isISOControl(fn.out.once[i]) => fn.out.once[i] = "nl"

\* C13: an inbound payload that cannot be parsed as a request is answered
\* by exactly one error envelope with message "Invalid message format", and
\* the connection stays open.
C13_MalformedAnsweredByErrorEnvelope ==
    [][\A s \in Sessions :
          (\E payload \in Payloads : ~payload.json /\ HandleMessage(s, payload)) =>
              /\ outbox'[s] =
                    Append(outbox[s], createErrorResponse("Invalid message format", 0))
              /\ conn'[s] = "open"]_vars

\* the tools ToolExecutor.execute has a handler of their own for
DISPATCH_TABLE == {"navigate", "save_form", "trigger_email", "submit_form"}

\* a finished execute of a command whose tool, lower-cased, is "unknown" or
\* another name outside the dispatch table
OutsideTable ==
    /\ Called("execute")
    /\ ~fn.arg.isNull /\ fn.arg.tool # Null
    /\ toLowerCase(fn.arg.tool) \notin DISPATCH_TABLE

\* C14 (original): dispatching a command whose tool is "unknown" or any name
\* outside the dispatch table (compared lower-cased) returns action
\* "UNKNOWN", success false and error "Could not interpret the command".
C14_OutsideTableYieldsUnknown ==
    OutsideTable =>
        /\ ~fn.out.threw
        /\ fn.out.result.action = "UNKNOWN"
        /\ fn.out.result.success = FALSE
        /\ fn.out.result.error = "Could not interpret the command"

\* C14 (amended): dispatching a command whose tool, lower-cased, is
\* "unknown" returns action "UNKNOWN", success false and error "Could not
\* interpret the command"; any other name outside the dispatch table returns
\* action "ERROR", success false and error "Unknown tool: " followed by the
\* name as given.
C14_UnknownOrErrorOutsideTable ==
    OutsideTable =>
        /\ ~fn.out.threw
        /\ fn.out.result.success = FALSE
        /\ IF toLowerCase(fn.arg.tool) = "unknown"
           THEN /\ fn.out.result.action = "UNKNOWN"
                /\ fn.out.result.error = "Could not interpret the command"
           ELSE /\ fn.out.result.action = "ERROR"
                /\ fn.out.result.error = "Unknown tool: " \o fn.arg.tool

C14_Witness ==
    /\ Called("execute")
    /\ fn.arg = ToolCall("dance", Params("text" :> Str("settings", 8)))
    /\ fn.out.result.action = "ERROR"
    /\ fn.out.result.error = "Unknown tool: dance"

\* a finished interpret that returned a command (did not raise)
Interpreted == Called("interpret") /\ ~fn.out.threw /\ ~fn.out.empty

C16_FailureHasErrorAndErrorActionsFail ==
    (Called("execute") /\ ~fn.out.threw) =>
        /\ fn.out.result.success = FALSE =>
              fn.out.result.error \notin {Null, ""}
        /\ fn.out.result.action \in {"UNKNOWN", "ERROR"} =>
              fn.out.result.success = FALSE

C16_Witness ==
    /\ Called("execute")
    /\ fn.arg = NullToolCall
    /\ ~fn.out.threw
    /\ fn.out.result.action = "ERROR"
    /\ fn.out.result.success = FALSE
    /\ fn.out.result.error = "Invalid tool call"

\* the command {tool: "unknown", params: {}}: the sentinel tool and no
\* parameter (a null params is read as the empty mapping here)
IsUnknownCommand(toolCall) ==
    /\ ~toolCall.isNull
    /\ toolCall.tool = "unknown"
    /\ DOMAIN toolCall.params.kv = {}

\* C17: if the reply of the completion service, its code fence stripped,
\* does not deserialize as a {tool, params} structure, or deserializes with
\* an empty or missing tool, interpret returns {tool: "unknown", params: {}}
\* and does not raise.
C17_BadReplyInterpretedAsUnknown ==
    (/\ Called("interpret") /\ fn.out.generated /\ ~fn.out.empty
     /\ \/ fn.out.response.doc.kind # "object"
        \/ fn.out.response.doc.tool \in {Null, ""}) =>
        /\ ~fn.out.threw
        /\ IsUnknownCommand(fn.out.toolCall)

\* parameter k of params has no value
MissingParam(params, k) ==
    \/ params.isNull
    \/ ~containsKey(params, k)
    \/ params.kv[k].isNull
    \/ params.kv[k].len = 0

\* parameter k of params has a value of more than limit characters
TooLong(params, k, limit) ==
    /\ ~params.isNull /\ containsKey(params, k)
    /\ ~params.kv[k].isNull /\ params.kv[k].len > limit

\* a command for a known tool that lacks a required parameter or has a
\* parameter over its length limit
FailsSchema(tool, params) ==
    CASE toLowerCase(tool) = "navigate" ->
            MissingParam(params, "page") \/ TooLong(params, "page", 500)
      [] toLowerCase(tool) = "save_form" ->
            \/ MissingParam(params, "field") \/ TooLong(params, "field", 500)
            \/ MissingParam(params, "value") \/ TooLong(params, "value", 500)
      [] toLowerCase(tool) = "trigger_email" ->
            TooLong(params, "subject", 500) \/ TooLong(params, "body", 1000)
      [] OTHER -> FALSE

\* C18: if the completion service returns a command for a known tool whose
\* required parameter is missing (no value, a null value included) or whose
\* parameter exceeds its length limit (500, 1000 for an email body),
\* interpret returns {tool: "unknown", params: {}} and raises nothing to the
\* gateway.
C18_InvalidCommandInterpretedAsUnknown ==
    (/\ Called("interpret") /\ fn.out.generated /\ ~fn.out.empty
     /\ fn.out.response.doc.kind = "object"
     /\ fn.out.response.doc.tool \notin {Null, ""}
     /\ FailsSchema(fn.out.response.doc.tool, fn.out.response.doc.params)) =>
        /\ ~fn.out.threw
        /\ IsUnknownCommand(fn.out.toolCall)

\* a command with a non-empty tool name outside the known registry
Unregistered(toolCall) ==
    /\ ~toolCall.isNull
    /\ toolCall.tool \notin {Null, ""}
    /\ toLowerCase(toolCall.tool) \notin VALID_TOOLS

\* C19: for every parsed command whose non-empty tool name is outside the
\* known registry, isValid reports true and interpret returns that command
\* unchanged (same tool, same params); it is the dispatcher that turns it
\* into a failure result.
C19_UnregisteredToolPassedThrough ==
    /\ (Called("isValidToolCall") /\ Unregistered(fn.arg)) =>
          fn.out = Returned(TRUE)
    /\ (/\ Called("interpret") /\ fn.out.generated /\ ~fn.out.empty
        /\ ~fn.out.parsed.threw /\ Unregistered(fn.out.parsed.toolCall)) =>
          /\ ~fn.out.threw
          /\ fn.out.toolCall = fn.out.parsed.toolCall
          /\ fn.out.toolCall = ToolCall(fn.out.response.doc.tool,
                                        fn.out.response.doc.params)
    /\ (Called("execute") /\ Unregistered(fn.arg)) =>
          /\ ~fn.out.threw
          /\ fn.out.result.success = FALSE

C19_Witness ==
    /\ Called("interpret")
    /\ fn.out.response = Plain(Doc("object", "dance", Params("page" :> NullVal)))
    /\ ~fn.out.threw
    /\ fn.out.toolCall = ToolCall("dance", Params("page" :> NullVal))

TypeOf(request) == IF request.type # Null THEN request.type ELSE "stt"

\* String.trim().isEmpty() of a text that may be null
IsBlank(request) == ~request.hasText \/ trim(request.text) = <<>>

\* the step handles payload on connection s and starts or finishes no
\* interpretation, and the Context Store is as it was
CheapPath(s, envelope) ==
    /\ outbox'[s] = Append(outbox[s], envelope)
    /\ UNCHANGED <<contexts, inflight, nextSeq, lastCall, conn>>

Bypassing ==
    {payload \in Payloads :
        /\ payload.json
        /\ \/ TypeOf(payload.request) = "ping"
           \/ /\ TypeOf(payload.request) = "stt"
              /\ payload.request.partial = "true"
              /\ ~IsBlank(payload.request)}

\* the envelope that answers a ping or a partial message
BypassAnswer(payload) ==
    IF TypeOf(payload.request) = "ping" THEN Envelope("pong", Null, 0)
    ELSE Envelope("partial", payload.request.text, 0)

\* a final command of session s is awaiting the completion service
AwaitingCompletion(s) == \E c \in inflight : c.sid = s

C23_FinalCommandEventuallyAnswered ==
    \A s \in Sessions, seq \in 1..MaxMsgs :
        (Pending(s, seq) # {}) ~>
            (Pending(s, seq) = {} /\ (conn[s] = "open" => Answers(s, seq) # {}))

\* C24: the action_result envelope sent for a final command carries the
\* dispatcher's result: its result.action and result.success are those of
\* the ActionResult execute returned for the command, its intent names the
\* command's tool upper-cased with confidence 1.0, and the optional
\* ActionResult fields that are null are left out.
C24_EnvelopeCarriesActualResult ==
    (lastCall.outcome # "none" /\ ~lastCall.threw) =>
        \A i \in Answers(lastCall.sid, lastCall.seq) :
            LET envelope == outbox[lastCall.sid][i]
            IN /\ envelope.type = "action_result"
               /\ "action" \in DOMAIN envelope.result
               /\ envelope.result.action = lastCall.result.action
               /\ envelope.result.success = lastCall.result.success
               /\ "intent" \in DOMAIN envelope.intent
               /\ envelope.intent.intent = toUpperCase(lastCall.toolCall.tool)
               /\ envelope.intent.confidence = "1.0"
               /\ \A f \in {"target", "field", "value", "taskId", "error"} :
                     lastCall.result[f] = Null => f \notin DOMAIN envelope.result

\* a text of the model as the parameter value that holds it
AsValue(text) ==
    [isNull |-> FALSE, s |-> IF text = <<"a">> THEN "a" ELSE "", len |-> Len(text)]

\* C25: for an unintelligible final command with input text t (the
\* completion service returns garbage or the tool "unknown") the result is
\* {action: "UNKNOWN", success: false, error: "Could not interpret the
\* command"} with metadata.original_text = t.
C25_UnintelligibleEchoesInput ==
    (/\ lastCall.outcome = "reply" /\ ~lastCall.threw
     /\ lastCall.toolCall.tool = "unknown") =>
        /\ lastCall.result.action = "UNKNOWN"
        /\ lastCall.result.success = FALSE
        /\ lastCall.result.error = "Could not interpret the command"
        /\ ~lastCall.result.metadata.isNull
        /\ containsKey(lastCall.result.metadata, "original_text")
        /\ lastCall.result.metadata.kv["original_text"] = AsValue(lastCall.text)


\* the smaller of two numbers
Min(a, b) == IF a < b THEN a ELSE b

\* the turns the Context Store holds for session s (none without an entry)
TurnsOf(ctxs, s) == IF s \in DOMAIN ctxs THEN ctxs[s].turns ELSE <<>>

\* the final commands of connection s dispatched so far: each one has put
\* one action_result envelope on the connection
DispatchedCount(s) ==
    Cardinality({i \in 1..Len(outbox[s]) : outbox[s][i].type = "action_result"})

\* the step dispatches a final command of session s
Dispatches(s) ==
    /\ lastCall' # lastCall
    /\ lastCall'.sid = s
    /\ ~lastCall'.threw

\* the turns of session s that a getContext made now would find
LiveTurns(s) ==
    IF s \in DOMAIN contexts /\ clock - contexts[s].lastAccessedAt <= CONTEXT_TIMEOUT
    THEN contexts[s].turns ELSE <<>>

C27_WelcomeFirstAndEntryLazy ==
    /\ [](\A s \in Sessions :
            /\ conn[s] # "idle" =>
                  /\ Len(outbox[s]) >= 1
                  /\ outbox[s][1].type = "system"
                  /\ \A i \in 2..Len(outbox[s]) : outbox[s][i].type # "system"
            /\ conn[s] = "idle" => outbox[s] = <<>>
            /\ s \in DOMAIN contexts => nextSeq[s] >= 1)
    /\ [][\A s \in Sessions :
            (conn[s] = "idle" /\ conn'[s] = "open") =>
                /\ contexts' = contexts
                /\ Len(outbox'[s]) = 1]_vars

C27_Witness ==
    /\ conn["s1"] = "open" /\ conn["s2"] = "open"
    /\ Len(outbox["s1"]) >= 2
    /\ outbox["s1"][1].type = "system"
    /\ "s1" \in DOMAIN contexts
    /\ "s2" \notin DOMAIN contexts


\* a text that is missing, empty or made of white space only
EmptyOrWhitespace(request) ==
    \/ ~request.hasText
    \/ \A i \in 1..Len(request.text) : request.text[i] \in {"sp", "nl"}

NotSttNorPing ==
    {payload \in Payloads :
        /\ payload.json
        /\ payload.request.type \notin {"stt", "ping"}}

\* the step answers on connection s with one error envelope and nothing else
\* changes: no interpretation is started, the session state and the Context
\* Store are as they were and the connection stays open
ProtocolError(s) ==
    /\ Len(outbox'[s]) = Len(outbox[s]) + 1
    /\ SubSeq(outbox'[s], 1, Len(outbox[s])) = outbox[s]
    /\ outbox'[s][Len(outbox'[s])].type = "error"
    /\ \A t \in Sessions \ {s} : outbox'[t] = outbox[t]
    /\ UNCHANGED <<contexts, inflight, nextSeq, lastCall, appended>>
    /\ conn'[s] = "open"

BackoffTable == <<2000, 3000, 4500, 6750, 10125>>

\* C30: the client's auto-reconnect is bounded: since the last successful
\* open (or since the start) at most 5 reconnect attempts are scheduled, one
\* per close; the 6th consecutive close schedules none and emits onError; a
\* successful open resets the attempt counter to 0; attempt n is scheduled
\* with a delay of 2000 * 1.5^(n-1) ms.
C30_ReconnectBounded ==
    /\ [](/\ Len(client.scheduled) <= 5
          /\ Len(client.scheduled) = Min(client.closes, 5)
          /\ client.reconnectAttempts = Len(client.scheduled)
          /\ \A n \in 1..Len(client.scheduled) :
                client.scheduled[n] = BackoffTable[n]
          /\ client.timer # 0 =>
                client.timer = BackoffTable[client.reconnectAttempts]
          /\ client.socket = "open" => client.reconnectAttempts = 0)
    /\ [][/\ (client.socket = "connecting" /\ client'.socket = "open") =>
                client'.reconnectAttempts = 0
          /\ (client'.closes = client.closes + 1 /\ client.closes >= 5) =>
                /\ client'.timer = 0
                /\ client'.scheduled = client.scheduled
                /\ client'.emitted = "onError: reconnect"
          /\ (client'.closes = client.closes + 1 /\ client.closes < 5) =>
                /\ client'.timer = BackoffTable[client'.closes]
                /\ client'.emitted # "onError: reconnect"]_vars

C30_Witness ==
    /\ client.opens >= 1
    /\ client.closes = 6
    /\ client.scheduled = BackoffTable
    /\ client.timer = 0
    /\ client.emitted = "onError: reconnect"


\* the positions in what was sent on connection c of the envelopes of the
\* given type that belong to final command number cmd
SentFor(c, type, cmd) ==
    {i \in 1..Len(node.sent[c]) :
        node.sent[c][i].type = type /\ node.sent[c][i].cmd = cmd}

\* final command cmd of connection c is suspended at one of handleSTT's awaits
Suspended(c, cmd) ==
    \/ [conn |-> c, cmd |-> cmd] \in node.interpreting
    \/ \E e \in node.executing : e.conn = c /\ e.cmd = cmd

\* C31: in the Node.js server the intent envelope of a final stt message is
\* sent before its action_result envelope, and an action_result is sent if
\* and only if the interpreted intent is neither UNKNOWN nor ERROR; with
\* several final messages in flight on one connection each command's pair
\* keeps this order.
C31_IntentBeforeActionResult ==
    \A c \in NodeConns, cmd \in 1..MaxNodeMsgs :
        LET intents == SentFor(c, "intent", cmd)
            results == SentFor(c, "action_result", cmd)
        IN /\ Cardinality(intents) <= 1
           /\ Cardinality(results) <= 1
           /\ \A j \in results : \E i \in intents : i < j
           /\ \A i \in intents :
                 IF node.sent[c][i].intent \in {"UNKNOWN", "ERROR"}
                 THEN results = {} /\ ~Suspended(c, cmd)
                 ELSE results # {} \/ Suspended(c, cmd)
           /\ intents = {} => results = {}

C31_Witness ==
    /\ Len(node.sent["c1"]) = 5
    /\ SentFor("c1", "intent", 1) = {2}
    /\ SentFor("c1", "intent", 2) = {3}
    /\ SentFor("c1", "action_result", 2) = {4}
    /\ SentFor("c1", "action_result", 1) = {5}


\* when the entry was created or, if it has turns, when the last was added
LastWrite(context) ==
    IF context.turns = <<>> THEN context.createdAt
    ELSE context.turns[Len(context.turns)].timestamp

\* C32: reading a session through getContext leaves lastAccessedAt of an
\* existing entry unchanged: lastAccessedAt is set only when the entry is
\* created and by addTurn, so it is the time of the creation or of the last
\* appended turn, and the session expires 30 minutes after that whatever
\* reads come in between.
C32_ReadsDoNotRefresh ==
    /\ [](\A s \in DOMAIN contexts :
            /\ contexts[s].lastAccessedAt = LastWrite(contexts[s])
            /\ clock - LastWrite(contexts[s]) > 30 <=>
                  s \notin DOMAIN cleanupExpiredContexts(contexts, clock))
    /\ [][\A s \in DOMAIN contexts \cap DOMAIN contexts' :
            contexts'[s].lastAccessedAt # contexts[s].lastAccessedAt =>
                /\ contexts'[s].lastAccessedAt = clock
                /\ \/ contexts'[s].createdAt = clock /\ contexts'[s].turns = <<>>
                   \/ /\ contexts'[s].turns # <<>>
                      /\ contexts'[s].turns[Len(contexts'[s].turns)].timestamp = clock
                      /\ appended'[s] # appended[s]]_vars

\* a getContext call returned an entry that had been idle for a while, as
\* it was
C32_Witness ==
    /\ returned.sid # "" /\ returned.existed
    /\ returned.now = 30
    /\ returned.before.lastAccessedAt = 0
    /\ returned.context = returned.before
    /\ returned.sid \in DOMAIN contexts
    /\ contexts[returned.sid].lastAccessedAt = 0
    /\ clock = 60


\* the spellings, among the tools of the model, of the four tools that act
KnownToolSpellings == {"navigate", "NAVIGATE", "save_form", "trigger_email", "submit_form"}

\* C33: the Validator and the Dispatcher agree on the known tools: a command
\* that isValidToolCall accepts and whose lower-cased tool is navigate,
\* save_form, trigger_email or submit_form is executed with success = true;
\* the dispatcher's "Missing ... parameter" ERROR result is not reached for
\* a command that passed validation.
C33_ValidKnownCommandSucceeds ==
    (/\ Called("isValidToolCall, execute")
     /\ fn.out.valid = [threw |-> FALSE, ok |-> TRUE]
     /\ ~fn.arg.isNull
     /\ fn.arg.tool \in KnownToolSpellings) =>
        /\ ~fn.out.executed.threw
        /\ fn.out.executed.result.success = TRUE
        /\ fn.out.executed.result.action # "ERROR"
        /\ fn.out.executed.result.error = Null

C33_Witness ==
    /\ Called("isValidToolCall, execute")
    /\ fn.arg = ToolCall("NAVIGATE", Params("page" :> Str("settings", 8)))
    /\ fn.out.valid = [threw |-> FALSE, ok |-> TRUE]
    /\ fn.out.executed.result.action = "NAVIGATE"
    /\ fn.out.executed.result.success = TRUE


\* C34: after the application calls disconnect() the client stays
\* disconnected: the close caused by disconnect() schedules no reconnect
\* attempt, and connect() is not called again until the application calls it.
C34_DisconnectStaysDisconnected ==
    /\ [](client.disconnected => client.socket \notin {"connecting", "open"})
    /\ [][(client.disconnected /\ client'.closes = client.closes + 1) =>
              (client'.timer = 0 /\ client'.scheduled = client.scheduled)]_vars


\* the transcribe calls, returned or not, whose audio holds the chunk
TranscriptionsOf(chunk) ==
    {i \in 1..Len(whisper.transcriptions) :
        \E j \in 1..Len(whisper.transcriptions[i]) : whisper.transcriptions[i][j] = chunk}

InFlightOf(chunk) ==
    {audioData \in whisper.inFlight :
        \E j \in 1..Len(audioData) : audioData[j] = chunk}

\* C35: in WhisperEngine at most one transcription is in flight at a time,
\* and every audio chunk recorded while listening is included in exactly one
\* transcription: a chunk is never in two of them, and a chunk that is in
\* none yet is still held for the next one.
C35_EveryChunkTranscribedOnce ==
    /\ Cardinality(whisper.inFlight) <= 1
    /\ \A chunk \in 1..whisper.recorded :
          LET times == Cardinality(TranscriptionsOf(chunk))
                         + Cardinality(InFlightOf(chunk))
          IN /\ times <= 1
             /\ times = 0 =>
                   \E j \in 1..Len(whisper.audioChunks) : whisper.audioChunks[j] = chunk


\* the step calls actionExecutor.execute
Executes == node'.lastExec # node.lastExec

RECURSIVE Replay(_, _)
Replay(applied, n) ==
    IF n = 0 THEN InitialDeviceState
    ELSE ActionExecutor_execute(Replay(applied, n - 1), applied[n].intent).deviceState

\* the commands of a sequence, in its order
RECURSIVE Cmds(_)
Cmds(applied) == IF applied = <<>> THEN <<>> ELSE <<Head(applied).cmd>> \o Cmds(Tail(applied))

\* the step answers a get_state on connection c
AnswersGetState(c) ==
    /\ Len(node'.sent[c]) = Len(node.sent[c]) + 1
    /\ node'.sent[c][Len(node'.sent[c])].type = "state"

\* C37: in the Node.js server the device state is one store shared by all
\* connections: a get_state on any connection returns the state as the
\* final commands of every connection have left it, and the commands are
\* applied to it in the order in which their interpretations complete.
C37_DeviceStateSharedAcrossConnections ==
    /\ [](/\ node.deviceState = Replay(node.applied, Len(node.applied))
          /\ Cmds(node.applied) =
                SelectSeq(node.completed,
                          LAMBDA k : \E i \in 1..Len(node.applied) :
                                        node.applied[i].cmd = k))
    /\ [][\A c \in NodeConns :
            AnswersGetState(c) =>
               /\ node'.sent[c][Len(node'.sent[c])].body =
                     Replay(node.applied, Len(node.applied))
               /\ node'.deviceState = node.deviceState]_vars

\* connection c2 is told of the light that a command of connection c1 has
\* turned on
C37_Witness ==
    /\ Len(node.applied) = 1
    /\ node.applied[1].conn = "c1"
    /\ node.applied[1].intent.intent = "TURN_ON_LIGHT"
    /\ Len(node.sent["c2"]) = 2
    /\ node.sent["c2"][2].type = "state"
    /\ node.sent["c2"][2].body = [InitialDeviceState EXCEPT !.lights = TRUE]

====
